---- MODULE Spec2Model ----
(***************************************************************************)
(* Model of c7n/deprecated.py: deprecation rules (Alias, Field, Element,   *)
(* Optionality), the Context wrapper, the collector check_deprecations,    *)
(* the aggregator report(policy) and the Report formatter.                 *)
(*                                                                         *)
(* Python values are records [type, chars]: a str is its sequence of       *)
(* one-character strings, so that parsing (strptime) reads characters and  *)
(* formatting (f-strings) concatenates them.                               *)
(***************************************************************************)
EXTENDS Integers, Sequences, FiniteSets, TLC

VARIABLES
    Deprecation_id,   \* Deprecation._id, the class-level id counter
    rules,            \* the rule objects constructed so far, in construction order
    raised,           \* the exception raised by the last call (NoExc if none)
    last,             \* the last call: its function, arguments and return value
    calls,            \* number of calls made (bounded by the guards)
    pc,               \* per thread: its position inside Deprecation.__init__
    self_obj,         \* per thread: the object (self) under construction
    reg,              \* per thread: the value loaded by `Deprecation._id += 1`
    built,            \* per thread: number of objects the thread has constructed
    arg_source,       \* the collaborator object handed to check_deprecations
    arg_context,      \* the context argument of check_deprecations
    arg_data,         \* the data argument of check_deprecations
    the_report        \* the Report object

vars == <<Deprecation_id, rules, raised, last, calls, pc, self_obj, reg, built,
          arg_source, arg_context, arg_data, the_report>>

---------------------------------------------------------------------------
(* Bounds *)

MaxCalls == 3        \* rule constructions per behaviour (sequential)
NThreads == 2        \* threads constructing rules concurrently
MaxBuilt == 2        \* constructions per thread
MaxDeps == 2         \* length of a collaborator's declared rule sequence
MaxAssign == 2       \* assignments to the sections of one Report
MaxElems == 2        \* filters (actions) attached to a resource manager

---------------------------------------------------------------------------
(* Python values *)

None == [type |-> "NoneType", chars |-> <<>>]
PyStr(cs) == [type |-> "str", chars |-> cs]
PyInt(cs) == [type |-> "int", chars |-> cs]

RECURSIVE Join(_)
Join(cs) == IF cs = <<>> THEN "" ELSE Head(cs) \o Join(Tail(cs))

\* str(v) / f"{v}" of a value: None renders as "None"
Str(v) == IF v.type = "NoneType" THEN "None" ELSE Join(v.chars)

NoExc == [exc |-> "none", msg |-> ""]
TypeError(m) == [exc |-> "TypeError", msg |-> m]

---------------------------------------------------------------------------
(* datetime.strptime(removed_after, "%Y-%m-%d")                            *)

Digits == {"0", "1", "2", "3", "4", "5", "6", "7", "8", "9"}
NonZero == Digits \ {"0"}
DigitVal == [c \in Digits |->
               CASE c = "0" -> 0 [] c = "1" -> 1 [] c = "2" -> 2 [] c = "3" -> 3
                 [] c = "4" -> 4 [] c = "5" -> 5 [] c = "6" -> 6 [] c = "7" -> 7
                 [] c = "8" -> 8 [] c = "9" -> 9]

RECURSIVE ToInt(_)
ToInt(cs) == IF cs = <<>> THEN 0
             ELSE ToInt(SubSeq(cs, 1, Len(cs) - 1)) * 10
                  + (IF cs[Len(cs)] \in Digits THEN DigitVal[cs[Len(cs)]] ELSE 0)

\* the character at position i, or "" past the end
At(s, i) == IF i >= 1 /\ i <= Len(s) THEN s[i] ELSE ""

\* %d : 3[0-1] | [1-2]\d | 0[1-9] | [1-9] | " "[1-9], tried in this order;
\* the position after the match, 0 when none matches
DayEnd(s, p) ==
    IF At(s, p) = "3" /\ At(s, p + 1) \in {"0", "1"} THEN p + 2
    ELSE IF At(s, p) \in {"1", "2"} /\ At(s, p + 1) \in Digits THEN p + 2
    ELSE IF At(s, p) = "0" /\ At(s, p + 1) \in NonZero THEN p + 2
    ELSE IF At(s, p) \in NonZero THEN p + 1
    ELSE IF At(s, p) = " " /\ At(s, p + 1) \in NonZero THEN p + 2
    ELSE 0

\* "-" then %d, after a month that ended before position p
RestEnd(s, p) == IF At(s, p) = "-" THEN DayEnd(s, p + 1) ELSE 0

\* %m : 1[0-2] | 0[1-9] | [1-9], tried in this order, backtracking when the
\* rest of the pattern does not match; the position after the month, 0 if none
MonthEnd(s, p) ==
    IF At(s, p) = "1" /\ At(s, p + 1) \in {"0", "1", "2"} /\ RestEnd(s, p + 2) # 0
        THEN p + 2
    ELSE IF At(s, p) = "0" /\ At(s, p + 1) \in NonZero /\ RestEnd(s, p + 2) # 0
        THEN p + 2
    ELSE IF At(s, p) \in NonZero /\ RestEnd(s, p + 1) # 0
        THEN p + 1
    ELSE 0

\* %Y : \d\d\d\d, then "-"
YearOk(s) == /\ \A i \in 1..4 : At(s, i) \in Digits
             /\ At(s, 5) = "-"

is_leap(y) == y % 4 = 0 /\ (y % 100 # 0 \/ y % 400 = 0)

days_in_month(y, m) ==
    IF m = 2 THEN (IF is_leap(y) THEN 29 ELSE 28)
    ELSE IF m \in {4, 6, 9, 11} THEN 30 ELSE 31

\* TRUE iff strptime(s, "%Y-%m-%d") returns: the regex matches a prefix, no
\* unconverted data remains, and date(year, month, day) is a valid date
strptime_ok(s) ==
    /\ YearOk(s)
    /\ MonthEnd(s, 6) # 0
    /\ LET me == MonthEnd(s, 6)
           de == RestEnd(s, me)
           dstart == IF At(s, me + 1) = " " THEN me + 2 ELSE me + 1
           y == ToInt(SubSeq(s, 1, 4))
           m == ToInt(SubSeq(s, 6, me - 1))
           d == ToInt(SubSeq(s, dstart, de - 1))
       IN  /\ de = Len(s) + 1
           /\ y >= 1
           /\ m >= 1 /\ m <= 12
           /\ d >= 1 /\ d <= days_in_month(y, m)

---------------------------------------------------------------------------
(* Deprecation.__init__ and the four rule classes.  A constructor returns  *)
(* [exc, self, counter]: the exception raised (NoExc if none), the object, *)
(* and the value of Deprecation._id afterwards.                            *)

NoIncrement(c) == c

\* Deprecation._id += 1
Increment(c) == c + 1

Deprecation_init(c, removed_after, link) ==
    IF removed_after # None /\ removed_after.type # "str"
    THEN [exc |-> TypeError("removed_after attribute must be a string"),
          self |-> None, counter |-> c]
    ELSE IF removed_after # None /\ ~strptime_ok(removed_after.chars)
    THEN [exc |-> TypeError(
                "removed_after attribute must be a valid date in the format 'YYYY-MM-DD', got '"
                \o Str(removed_after) \o "'"),
          self |-> None, counter |-> c]
    ELSE [exc |-> NoExc,
          self |-> [removed_after |-> removed_after, link |-> link, id |-> c],
          counter |-> Increment(c)]

\* the subclass constructor: super().__init__ first, then its own fields
Subclass(r, extra) ==
    IF r.exc # NoExc THEN r ELSE [r EXCEPT !.self = extra @@ r.self]

DeprecatedAlias_init(c, name, removed_after, link) ==
    Subclass(Deprecation_init(c, removed_after, link),
             [cls |-> "DeprecatedAlias", name |-> name])

DeprecatedField_init(c, name, replacement, removed_after, link) ==
    Subclass(Deprecation_init(c, removed_after, link),
             [cls |-> "DeprecatedField", name |-> name, replacement |-> replacement])

DeprecatedElement_init(c, name, replacement, removed_after, link) ==
    Subclass(Deprecation_init(c, removed_after, link),
             [cls |-> "DeprecatedElement", name |-> name, replacement |-> replacement])

DeprecatedOptionality_init(c, fields, removed_after, link) ==
    Subclass(Deprecation_init(c, removed_after, link),
             [cls |-> "DeprecatedOptionality", fields |-> fields])

\* the module-level factories
alias(c, name, removed_after, link) ==
    DeprecatedAlias_init(c, name, removed_after, link)

action(c, replacement, removed_after, link) ==
    DeprecatedElement_init(c, PyStr(<<"a", "c", "t", "i", "o", "n">>),
                           replacement, removed_after, link)

filter(c, replacement, removed_after, link) ==
    DeprecatedElement_init(c, PyStr(<<"f", "i", "l", "t", "e", "r">>),
                           replacement, removed_after, link)

field(c, name, replacement, removed_after, link) ==
    DeprecatedField_init(c, name, replacement, removed_after, link)

optional_field(c, name, removed_after, link) ==
    DeprecatedOptionality_init(c, <<name>>, removed_after, link)

optional_fields(c, names, removed_after, link) ==
    DeprecatedOptionality_init(c, names, removed_after, link)

---------------------------------------------------------------------------
(* check(data) and __str__ of the rules and of Context.  A data mapping is *)
(* a function from keys (str values) to values.                            *)

Range(f) == {f[x] : x \in DOMAIN f}

\* dict.get(key): the value, or None when the key is absent
Get(data, key) == IF key \in DOMAIN data THEN data[key] ELSE None

KeyType == PyStr(<<"t", "y", "p", "e">>)

DeprecatedAlias_check(self, data) == Get(data, KeyType) = self.name

DeprecatedField_check(self, data) ==
    IF self.name \in DOMAIN data THEN TRUE ELSE FALSE

DeprecatedElement_check(self, data) == TRUE

RECURSIVE AnyOf(_)
AnyOf(bs) == IF bs = <<>> THEN FALSE ELSE Head(bs) \/ AnyOf(Tail(bs))

\* all(iterable)
RECURSIVE AllOf(_)
AllOf(bs) == IF bs = <<>> THEN TRUE ELSE Head(bs) /\ AllOf(Tail(bs))

DeprecatedOptionality_check_any(self, data) ==
    AnyOf([i \in 1..Len(self.fields) |-> self.fields[i] \notin DOMAIN data])

\* all([key not in data for key in self.fields])
DeprecatedOptionality_check(self, data) ==
    AllOf([i \in 1..Len(self.fields) |-> self.fields[i] \notin DOMAIN data])

check(d, data) ==
    CASE d.cls = "DeprecatedAlias" -> DeprecatedAlias_check(d, data)
      [] d.cls = "DeprecatedField" -> DeprecatedField_check(d, data)
      [] d.cls = "DeprecatedElement" -> DeprecatedElement_check(d, data)
      [] d.cls = "DeprecatedOptionality" -> DeprecatedOptionality_check(d, data)

DeprecatedAlias_str(self) ==
    "alias '" \o Str(self.name) \o "' has been deprecated"

DeprecatedField_str(self) ==
    LET replacement == IF " " \notin Range(self.replacement.chars)
                       THEN "'" \o Str(self.replacement) \o "'"
                       ELSE Str(self.replacement)
    IN  "field '" \o Str(self.name) \o "' has been deprecated (replaced by "
        \o replacement \o ")"

DeprecatedElement_str(self) ==
    Str(self.name) \o " has been deprecated (" \o Str(self.replacement) \o ")"

\* ' or '.join(quoted)
RECURSIVE JoinOr(_)
JoinOr(ss) == IF Len(ss) = 1 THEN Head(ss)
              ELSE Head(ss) \o " or " \o JoinOr(Tail(ss))

DeprecatedOptionality_str(self) ==
    IF Len(self.fields) > 1
    THEN "optional fields deprecated (one of "
         \o JoinOr([i \in 1..Len(self.fields) |-> "'" \o Str(self.fields[i]) \o "'"])
         \o " must be specified)"
    ELSE "optional field '" \o Str(self.fields[1]) \o "' deprecated (must be specified)"

Context_init(context, deprecation) ==
    [cls |-> "Context", context |-> context, deprecation |-> deprecation]

\* Context.id
Context_id(self) == self.deprecation.id

RuleStr(d) ==
    CASE d.cls = "DeprecatedAlias" -> DeprecatedAlias_str(d)
      [] d.cls = "DeprecatedField" -> DeprecatedField_str(d)
      [] d.cls = "DeprecatedElement" -> DeprecatedElement_str(d)
      [] d.cls = "DeprecatedOptionality" -> DeprecatedOptionality_str(d)

\* f"{self.context} {self.deprecation}"
Context_str(self) == Str(self.context) \o " " \o RuleStr(self.deprecation)

\* str(d) of a report entry
describe(d) == IF d.cls = "Context" THEN Context_str(d) ELSE RuleStr(d)

IdOf(d) == IF d.cls = "Context" THEN Context_id(d) ELSE d.id

---------------------------------------------------------------------------
(* Sequential rule construction *)

NameArg == PyStr(<<"m", "a", "r", "k">>)
ReplArg == PyStr(<<"u", "s", "e", " ", "t", "a", "g">>)
FieldA == PyStr(<<"d", "a", "y", "s">>)
FieldB == PyStr(<<"h", "o", "u", "r", "s">>)
DateGood == PyStr(<<"2", "0", "2", "1", "-", "0", "6", "-", "3", "0">>)
DateMonth13 == PyStr(<<"2", "0", "2", "1", "-", "1", "3", "-", "0", "1">>)
NotAString == PyInt(<<"2", "0", "2", "1">>)

\* removed_after arguments of the sequential constructions
CtorDates == {None, DateGood, DateMonth13, NotAString}

\* state shared by every specification of the module, at start-up
Idle ==
    /\ Deprecation_id = 0
    /\ rules = <<>>
    /\ raised = NoExc
    /\ calls = 0
    /\ pc = [t \in 1..NThreads |-> "idle"]
    /\ self_obj = [t \in 1..NThreads |-> None]
    /\ reg = [t \in 1..NThreads |-> 0]
    /\ built = [t \in 1..NThreads |-> 0]
    /\ the_report = None

NoCollector == arg_source = None /\ arg_context = None /\ arg_data = None

InitCtor == Idle /\ NoCollector /\ last = [fn |-> "start", args |-> <<>>, ret |-> None]

\* one construction: r is what the constructor returned
Construct(r, fn, args) ==
    /\ calls < MaxCalls
    /\ calls' = calls + 1
    /\ Deprecation_id' = r.counter
    /\ raised' = r.exc
    /\ rules' = IF r.exc = NoExc THEN Append(rules, r.self) ELSE rules
    /\ last' = [fn |-> fn, args |-> args, ret |-> r.self]
    /\ UNCHANGED <<pc, self_obj, reg, built, arg_source, arg_context, arg_data, the_report>>

CallAlias ==
    \E ra \in CtorDates :
        Construct(alias(Deprecation_id, NameArg, ra, None), "alias", <<NameArg, ra>>)

\* positional arguments bind to (replacement, removed_after, link)
CallAction ==
    \E a2 \in CtorDates \cup {ReplArg}, a3 \in {None, DateGood} :
        Construct(action(Deprecation_id, NameArg, a2, a3), "action", <<NameArg, a2, a3>>)

CallFilter ==
    \E a2 \in CtorDates \cup {ReplArg}, a3 \in {None, DateGood} :
        Construct(filter(Deprecation_id, NameArg, a2, a3), "filter", <<NameArg, a2, a3>>)

CallField ==
    \E ra \in CtorDates :
        Construct(field(Deprecation_id, NameArg, ReplArg, ra, None),
                  "field", <<NameArg, ReplArg, ra>>)

CallOptionalField ==
    \E ra \in CtorDates :
        Construct(optional_field(Deprecation_id, FieldA, ra, None),
                  "optional_field", <<FieldA, ra>>)

CallOptionalFields ==
    \E ra \in CtorDates :
        Construct(optional_fields(Deprecation_id, <<FieldA, FieldB>>, ra, None),
                  "optional_fields", <<FieldA, FieldB, ra>>)

NextCtor ==
    \/ CallAlias
    \/ CallAction
    \/ CallFilter
    \/ CallField
    \/ CallOptionalField
    \/ CallOptionalFields

SpecCtor == InitCtor /\ [][NextCtor]_vars

\* C3: after any sequence of rule constructions, failed ones included, the
\* ids of the successfully constructed rules are pairwise distinct and
\* strictly increasing in construction order.
C3_IdsStrictlyIncreasing ==
    \A i, j \in DOMAIN rules : i < j => rules[i].id < rules[j].id

\* two rules were constructed, the last call succeeded and an earlier one failed
C3_Witness ==
    /\ Len(rules) >= 2
    /\ calls > Len(rules)
    /\ raised = NoExc

\* C8: action(name, replacement, removed_after) and filter(name, replacement,
\* removed_after) with a valid date construct a rule whose check is true for
\* every data mapping and whose description is
\* "<action|filter> '<name>' has been deprecated (<replacement>)".
C8_ElementFactories ==
    (last.fn \in {"action", "filter"} /\ last.args = <<NameArg, ReplArg, DateGood>>)
    => /\ raised = NoExc
       /\ check(last.ret, <<>>)
       /\ check(last.ret, [k \in {KeyType} |-> NameArg])
       /\ describe(last.ret) =
            last.fn \o " '" \o Str(NameArg) \o "' has been deprecated ("
            \o Str(ReplArg) \o ")"

---------------------------------------------------------------------------
(* Construction over a range of removed_after values *)

Years == {<<"2", "0", "2", "1">>, <<"2", "0", "2", "0">>, <<"1", "9", "0", "0">>,
          <<"2", "0", "0", "0">>, <<"2", "1">>}
Months == {<<"0", "6">>, <<"6">>, <<"0", "2">>, <<"2">>, <<"1", "3">>,
           <<"0", "0">>, <<"1", "2">>, <<"1", "1">>}
Days == {<<"3", "0">>, <<"3">>, <<"0", "3">>, <<"2", "9">>, <<"3", "1">>,
         <<"3", "2">>, <<"0", "0">>, <<" ", "3">>}

DateInputs ==
    {PyStr(y \o <<"-">> \o m \o <<"-">> \o d) : y \in Years, m \in Months, d \in Days}
    \cup {None, NotAString, ReplArg, PyStr(<<>>),
          PyStr(<<"2", "0", "2", "1", "/", "0", "6", "/", "3", "0">>),
          PyStr(<<"2", "0", "2", "1", "-", "0", "6">>),
          PyStr(<<"2", "0", "2", "1", "-", "0", "6", "-", "3", "0", " ">>),
          PyStr(<<"2", "0", "2", "1", "0", "6", "3", "0">>)}

InitDate ==
    /\ Idle
    /\ NoCollector
    /\ last \in {[fn |-> "input", args |-> <<ra>>, ret |-> None] : ra \in DateInputs}

DatedAlias ==
    /\ last.fn = "input"
    /\ Construct(alias(Deprecation_id, NameArg, last.args[1], None), "alias", last.args)

DatedElement ==
    /\ last.fn = "input"
    /\ Construct(action(Deprecation_id, ReplArg, last.args[1], None), "action", last.args)

DatedField ==
    /\ last.fn = "input"
    /\ Construct(field(Deprecation_id, NameArg, ReplArg, last.args[1], None),
                 "field", last.args)

DatedOptionality ==
    /\ last.fn = "input"
    /\ Construct(optional_fields(Deprecation_id, <<FieldA, FieldB>>, last.args[1], None),
                 "optional_fields", last.args)

NextDate ==
    \/ DatedAlias
    \/ DatedElement
    \/ DatedField
    \/ DatedOptionality

SpecDate == InitDate /\ [][NextDate]_vars

\* a string of the form YYYY-MM-DD naming a real calendar date
IsIsoDate(cs) ==
    /\ Len(cs) = 10
    /\ \A i \in {1, 2, 3, 4, 6, 7, 9, 10} : cs[i] \in Digits
    /\ cs[5] = "-" /\ cs[8] = "-"
    /\ LET y == ToInt(SubSeq(cs, 1, 4))
           m == ToInt(SubSeq(cs, 6, 7))
           d == ToInt(SubSeq(cs, 9, 10))
       IN  /\ m \in 1..12
           /\ d >= 1
           /\ d <= (IF m = 2 THEN (IF y % 4 = 0 /\ (y % 100 # 0 \/ y % 400 = 0)
                                   THEN 29 ELSE 28)
                    ELSE IF m \in {4, 6, 9, 11} THEN 30 ELSE 31)

\* C5: construction with a removed_after value succeeds iff the value is absent
\* or a string YYYY-MM-DD naming a real calendar date; otherwise it fails at
\* once with a format error.
C5_EagerDateValidation ==
    last.fn \notin {"input", "start"} =>
        LET ra == last.args[1]
        IN  /\ raised = NoExc <=> (ra = None \/ (ra.type = "str" /\ IsIsoDate(ra.chars)))
            /\ raised # NoExc => raised.exc = "TypeError" /\ rules = <<>>

---------------------------------------------------------------------------
(* Concurrent rule construction: each thread runs the statements of        *)
(* Deprecation.__init__ one at a time; `Deprecation._id += 1` is a load    *)
(* followed by a store.                                                    *)

Threads == 1..NThreads

InitConc == Idle /\ NoCollector /\ last = [fn |-> "start", args |-> <<>>, ret |-> None]

\* lines 86-95: validate removed_after, then set self.removed_after, self.link
Begin(t) ==
    /\ pc[t] = "idle"
    /\ built[t] < MaxBuilt
    /\ \E ra \in {None, DateGood, DateMonth13} :
         LET r == Deprecation_init(0, ra, None)
         IN  IF r.exc # NoExc
             THEN /\ raised' = r.exc
                  /\ built' = [built EXCEPT ![t] = @ + 1]
                  /\ UNCHANGED <<pc, self_obj>>
             ELSE /\ self_obj' = [self_obj EXCEPT ![t] =
                        [removed_after |-> ra, link |-> None, id |-> -1]]
                  /\ pc' = [pc EXCEPT ![t] = "assign"]
                  /\ UNCHANGED <<raised, built>>
    /\ UNCHANGED <<Deprecation_id, rules, last, calls, reg, arg_source, arg_context, arg_data,
                   the_report>>

\* line 96: self.id = Deprecation._id
AssignId(t) ==
    /\ pc[t] = "assign"
    /\ self_obj' = [self_obj EXCEPT ![t] = [@ EXCEPT !.id = Deprecation_id]]
    /\ pc' = [pc EXCEPT ![t] = "load"]
    /\ UNCHANGED <<Deprecation_id, rules, raised, last, calls, reg, built,
                   arg_source, arg_context, arg_data, the_report>>

\* line 97, first half: read Deprecation._id
Load(t) ==
    /\ pc[t] = "load"
    /\ reg' = [reg EXCEPT ![t] = Deprecation_id]
    /\ pc' = [pc EXCEPT ![t] = "store"]
    /\ UNCHANGED <<Deprecation_id, rules, raised, last, calls, self_obj, built,
                   arg_source, arg_context, arg_data, the_report>>

\* line 97, second half: write Deprecation._id; the constructor returns
Store(t) ==
    /\ pc[t] = "store"
    /\ Deprecation_id' = Increment(reg[t])
    /\ rules' = Append(rules, self_obj[t])
    /\ built' = [built EXCEPT ![t] = @ + 1]
    /\ pc' = [pc EXCEPT ![t] = "idle"]
    /\ UNCHANGED <<raised, last, calls, self_obj, reg, arg_source, arg_context, arg_data,
                   the_report>>

NextConc ==
    \E t \in Threads :
        \/ Begin(t)
        \/ AssignId(t)
        \/ Load(t)
        \/ Store(t)

SpecConc == InitConc /\ [][NextConc]_vars

\* C4: under every interleaving of concurrent constructions no two rule
\* instances receive the same id and no increment of the counter is lost.
C4_AtomicCounter ==
    /\ \A i, j \in DOMAIN rules : i # j => rules[i].id # rules[j].id
    /\ (\A t \in Threads : pc[t] = "idle") => Deprecation_id = Len(rules)

---------------------------------------------------------------------------
(* The collector.  An object is the record of its attributes, so          *)
(* getattr(obj, name, default) looks the name up in the record's domain.   *)

PyDict(m) == [type |-> "dict", map |-> m]

getattr(obj, name, default) == IF name \in DOMAIN obj THEN obj[name] ELSE default

\* the loop of lines 189-193, over the rules not yet visited
RECURSIVE CollectLoop(_, _, _, _)
CollectLoop(ds, ctx, dat, deprecations) ==
    IF ds = <<>> THEN deprecations
    ELSE LET d == Head(ds)
         IN  IF check(d, dat.map)
             THEN CollectLoop(Tail(ds), ctx, dat,
                              Append(deprecations,
                                     IF ctx # None THEN Context_init(ctx, d) ELSE d))
             ELSE CollectLoop(Tail(ds), ctx, dat, deprecations)

check_deprecations_unfiltered(src, ctx, dat) ==
    [ret |-> [i \in 1..Len(getattr(src, "deprecations", <<>>)) |->
                IF ctx # None
                THEN Context_init(ctx, getattr(src, "deprecations", <<>>)[i])
                ELSE getattr(src, "deprecations", <<>>)[i]],
     source |-> src, data |-> dat]

\* returns [ret, source, data]: the list returned, and the two argument
\* objects as the call leaves them
check_deprecations(src, ctx, dat) ==
    LET dat1 == IF dat = None THEN getattr(src, "data", PyDict(<<>>)) ELSE dat
    IN  [ret |-> CollectLoop(getattr(src, "deprecations", <<>>), ctx, dat1, <<>>),
         source |-> src,
         data |-> dat]

\* the rules a collaborator type may declare, constructed in this order
Rule0 == alias(0, NameArg, DateGood, None).self
Rule1 == field(1, FieldA, ReplArg, DateGood, None).self
Rule2 == action(2, ReplArg, None, None).self
Rule3 == optional_fields(3, <<FieldA, FieldB>>, DateGood, None).self
Rule4 == optional_field(4, FieldB, None, None).self
RulePool == {Rule0, Rule1, Rule2, Rule3, Rule4}

SeqsUpTo(S, n) == UNION {[1..k -> S] : k \in 0..n}

One == PyInt(<<"1">>)

\* data mappings over the keys "type", "days", "hours"
DataMaps ==
    {t @@ a @@ b :
        t \in {<<>>, [k \in {KeyType} |-> NameArg], [k \in {KeyType} |-> ReplArg]},
        a \in {<<>>, [k \in {FieldA} |-> One]},
        b \in {<<>>, [k \in {FieldB} |-> One]}}

Sources ==
    {[deprecations |-> ds, data |-> PyDict(m)] :
        ds \in SeqsUpTo(RulePool, MaxDeps), m \in DataMaps}
    \cup {[deprecations |-> ds] : ds \in SeqsUpTo(RulePool, MaxDeps)}
    \cup {[data |-> PyDict(m)] : m \in DataMaps}
    \cup {[permissions |-> <<>>]}

Label == PyStr(<<"m", "a", "r", "k", ":">>)

InitCollect ==
    /\ Idle
    /\ arg_source \in Sources
    /\ arg_context \in {None, Label}
    /\ arg_data \in {None} \cup {PyDict(m) : m \in DataMaps}
    /\ last = [fn |-> "start", args |-> <<>>, ret |-> None]

CallCheckDeprecations ==
    LET r == check_deprecations(arg_source, arg_context, arg_data)
    IN  /\ arg_source' = r.source
        /\ arg_data' = r.data
        /\ last' = [fn |-> "check_deprecations",
                    args |-> <<arg_source, arg_context, arg_data>>, ret |-> r.ret]
        /\ UNCHANGED <<Deprecation_id, rules, raised, calls, pc, self_obj, reg,
                       built, arg_context, the_report>>

\* d.check(data) on one declared rule, with the data of the collaborator
CallCheck ==
    /\ "deprecations" \in DOMAIN arg_source
    /\ "data" \in DOMAIN arg_source
    /\ \E i \in DOMAIN arg_source.deprecations :
         last' = [fn |-> "check",
                  args |-> <<arg_source.deprecations[i], arg_source.data>>,
                  ret |-> check(arg_source.deprecations[i], arg_source.data.map)]
    /\ UNCHANGED <<Deprecation_id, rules, raised, calls, pc, self_obj, reg,
                   built, arg_source, arg_context, arg_data, the_report>>

NextCollect ==
    \/ CallCheckDeprecations
    \/ CallCheck

SpecCollect == InitCollect /\ [][NextCollect]_vars

\* C6: check_deprecations returns exactly the subsequence of the declared
\* rules whose check(data) is true, in declared order, each wrapped in a
\* Context iff a context label is supplied; data defaults to the source's own
\* data (empty if absent), no declared rules yields the empty sequence, and
\* source and data are left unmodified.
C6_Collector ==
    last.fn = "check_deprecations" =>
        LET src == last.args[1]
            ctx == last.args[2]
            dat == last.args[3]
            eff == IF dat # None THEN dat.map
                   ELSE IF "data" \in DOMAIN src THEN src.data.map ELSE <<>>
            decl == IF "deprecations" \in DOMAIN src THEN src.deprecations ELSE <<>>
            kept == SelectSeq(decl, LAMBDA d : check(d, eff))
        IN  /\ Len(last.ret) = Len(kept)
            /\ \A i \in DOMAIN kept :
                 last.ret[i] = IF ctx = None THEN kept[i]
                               ELSE [cls |-> "Context", context |-> ctx,
                                     deprecation |-> kept[i]]
            /\ arg_source = src
            /\ arg_data = dat

\* two rules declared, one kept and wrapped, data defaulted from the source
C6_Witness ==
    /\ last.fn = "check_deprecations"
    /\ last.args[2] # None
    /\ last.args[3] = None
    /\ "data" \in DOMAIN last.args[1]
    /\ "deprecations" \in DOMAIN last.args[1]
    /\ Len(last.args[1].deprecations) = 2
    /\ Len(last.ret) = 1
    /\ last.ret[1].deprecation = last.args[1].deprecations[2]

\* C9: an Optionality rule's check(data) is true iff none of its fields is a
\* key of data.
C9_OptionalityCheck ==
    (last.fn = "check" /\ last.args[1].cls = "DeprecatedOptionality") =>
        (last.ret <=>
            \A i \in DOMAIN last.args[1].fields :
                last.args[1].fields[i] \notin DOMAIN last.args[2].map)

\* two fields, exactly one of them present: the check is false
C9_Witness ==
    /\ last.fn = "check"
    /\ last.args[1] = Rule3
    /\ FieldA \in DOMAIN last.args[2].map
    /\ FieldB \notin DOMAIN last.args[2].map
    /\ last.ret = FALSE

---------------------------------------------------------------------------
(* Report *)

Report_init(policy_name, policy_fields, conditions, mode, resource, filters, actions) ==
    [policy_name |-> policy_name, policy_fields |-> policy_fields,
     conditions |-> conditions, mode |-> mode, resource |-> resource,
     filters |-> filters, actions |-> actions]

Report_bool_no_mode(self) ==
    IF Len(self.filters) > 0 THEN TRUE
    ELSE IF Len(self.actions) > 0 THEN TRUE
    ELSE IF Len(self.policy_fields) > 0 THEN TRUE
    ELSE IF Len(self.conditions) > 0 THEN TRUE
    ELSE IF Len(self.resource) > 0 THEN TRUE
    ELSE FALSE

\* Report.__bool__
Report_bool(self) ==
    IF Len(self.filters) > 0 THEN TRUE
    ELSE IF Len(self.actions) > 0 THEN TRUE
    ELSE IF Len(self.policy_fields) > 0 THEN TRUE
    ELSE IF Len(self.conditions) > 0 THEN TRUE
    ELSE IF Len(self.resource) > 0 THEN TRUE
    ELSE IF Len(self.mode) > 0 THEN TRUE
    ELSE FALSE

\* Report.section: the lines of one section
Report_section(name, deprecations) ==
    LET count == Len(deprecations)
    IN  IF count = 0 THEN <<>>
        ELSE <<"  " \o name \o ":">>
             \o [i \in 1..count |-> "    " \o describe(deprecations[i])]

\* "\n".join(lines)
RECURSIVE JoinLines(_)
JoinLines(lines) ==
    IF lines = <<>> THEN ""
    ELSE IF Len(lines) = 1 THEN Head(lines)
    ELSE Head(lines) \o "\n" \o JoinLines(Tail(lines))

\* source_locator.find(policy_name): the locator object answers with the
\* value it holds
find(source_locator, policy_name) == source_locator.returns

\* the first line of Report.format
Report_header(self, source_locator) ==
    LET location == IF source_locator # None
                    THEN " (" \o Str(find(source_locator, self.policy_name)) \o ")"
                    ELSE ""
    IN  "policy '" \o Str(self.policy_name) \o "'" \o location

Report_format(self, source_locator) ==
    JoinLines(<<Report_header(self, source_locator)>>
              \o Report_section("attributes", self.policy_fields)
              \o Report_section("condition", self.conditions)
              \o Report_section("mode", self.mode)
              \o Report_section("resource", self.resource)
              \o Report_section("filters", self.filters)
              \o Report_section("actions", self.actions))

PolicyName == PyStr(<<"p", "1">>)
Location == PyStr(<<"f", ".", "y", "m", "l", ":", "1", "2">>)

\* a source locator whose find() answers v
Locator(v) == [cls |-> "locator", returns |-> v]
Locators == {None, Locator(None), Locator(PyStr(<<>>)), Locator(Location)}

\* report entries: a rule, and two Contexts (one around the same rule)
EntryA == Rule1
EntryB == Context_init(Label, Rule3)
EntryC == Context_init(Label, Rule1)

\* the sequences a section may hold: zero, one, two and three entries
EntrySeqs == {<<>>, <<EntryA>>, <<EntryB>>, <<EntryA, EntryC>>, <<EntryB, EntryA>>,
              <<EntryC, EntryA, EntryB>>}

SectionNames == {"policy_fields", "conditions", "mode", "resource", "filters", "actions"}

InitReport ==
    /\ Idle
    /\ NoCollector
    /\ last = [fn |-> "start", args |-> <<>>, ret |-> None]

\* Report("p1")
CallReportInit ==
    /\ the_report = None
    /\ the_report' = Report_init(PolicyName, <<>>, <<>>, <<>>, <<>>, <<>>, <<>>)
    /\ last' = [fn |-> "Report", args |-> <<PolicyName>>, ret |-> None]
    /\ UNCHANGED <<Deprecation_id, rules, raised, calls, pc, self_obj, reg, built,
                   arg_source, arg_context, arg_data>>

\* report.<section> = [...]
AssignSection ==
    /\ the_report # None
    /\ calls < MaxAssign
    /\ \E attr \in SectionNames, ds \in EntrySeqs :
         the_report' = [the_report EXCEPT ![attr] = ds]
    /\ calls' = calls + 1
    /\ last' = [fn |-> "assign", args |-> <<>>, ret |-> None]
    /\ UNCHANGED <<Deprecation_id, rules, raised, pc, self_obj, reg, built,
                   arg_source, arg_context, arg_data>>

\* bool(report)
CallBool ==
    /\ the_report # None
    /\ last' = [fn |-> "__bool__", args |-> <<>>, ret |-> Report_bool(the_report)]
    /\ UNCHANGED <<Deprecation_id, rules, raised, calls, pc, self_obj, reg, built,
                   arg_source, arg_context, arg_data, the_report>>

\* report.format(source_locator)
CallFormat ==
    /\ the_report # None
    /\ \E loc \in Locators :
         last' = [fn |-> "format", args |-> <<loc>>,
                  ret |-> Report_format(the_report, loc)]
    /\ UNCHANGED <<Deprecation_id, rules, raised, calls, pc, self_obj, reg, built,
                   arg_source, arg_context, arg_data, the_report>>

NextReport ==
    \/ CallReportInit
    \/ AssignSection
    \/ CallBool
    \/ CallFormat

SpecReport == InitReport /\ [][NextReport]_vars

\* the lines the three-way rule gives for one section
SectionByCount(label, ds) ==
    IF Len(ds) = 0 THEN <<>>
    ELSE IF Len(ds) = 1 THEN <<"  " \o label \o ": " \o describe(ds[1])>>
    ELSE <<"  " \o label \o ":">> \o [i \in 1..Len(ds) |-> "    " \o describe(ds[i])]

\* C1: format renders each of the six sections by its entry count: nothing
\* for an empty section, the single line "  <label>: <entry>" for one entry,
\* and "  <label>:" followed by one "    <entry>" line per entry for two or more.
C1_SectionsByCount ==
    last.fn = "format" =>
        last.ret = JoinLines(<<Report_header(the_report, last.args[1])>>
                           \o SectionByCount("attributes", the_report.policy_fields)
                           \o SectionByCount("condition", the_report.conditions)
                           \o SectionByCount("mode", the_report.mode)
                           \o SectionByCount("resource", the_report.resource)
                           \o SectionByCount("filters", the_report.filters)
                           \o SectionByCount("actions", the_report.actions))

\* C2: the header is "policy '<name>'", followed by " (<location>)" iff a
\* source_locator is given and its find(policy_name) returns a non-empty string.
C2_HeaderLocation ==
    last.fn = "format" =>
        LET loc == last.args[1]
            found == IF loc = None THEN None ELSE loc.returns
            suffix == IF found.type = "str" /\ found.chars # <<>>
                      THEN " (" \o Join(found.chars) \o ")" ELSE ""
        IN  last.ret = JoinLines(<<"policy '" \o Join(the_report.policy_name.chars)
                                 \o "'" \o suffix>>
                               \o Report_section("attributes", the_report.policy_fields)
                               \o Report_section("condition", the_report.conditions)
                               \o Report_section("mode", the_report.mode)
                               \o Report_section("resource", the_report.resource)
                               \o Report_section("filters", the_report.filters)
                               \o Report_section("actions", the_report.actions))

---------------------------------------------------------------------------
(* report(policy).  A collaborator (policy, condition block, execution     *)
(* mode, resource manager, filter, action) is the record of its attributes;*)
(* `returns` is what its get_deprecations() answers.                       *)

get_deprecations(obj) == obj.returns

\* the query log entry of one get_deprecations() call
Query(kind, index) == [kind |-> kind, index |-> index]

extend_dedup(list, items) ==
    list \o SelectSeq(items, LAMBDA d : \A i \in DOMAIN list : IdOf(list[i]) # IdOf(d))

\* list.extend(items)
extend(list, items) == list \o items

\* for e in elems: acc.extend(e.get_deprecations())
RECURSIVE ExtendLoop(_, _)
ExtendLoop(elems, acc) ==
    IF elems = <<>> THEN acc
    ELSE ExtendLoop(Tail(elems), extend(acc, get_deprecations(Head(elems))))

\* returns [ret, log]: the Report, and the get_deprecations() calls made, in order
report(policy) ==
    LET policy_fields == get_deprecations(policy)
        conditions == get_deprecations(policy.conditions)
        mode == get_deprecations(policy.execution_mode)
        rm == policy.resource_manager
        resource == get_deprecations(rm)
        filters == ExtendLoop(rm.filters, <<>>)
        actions == ExtendLoop(rm.actions, <<>>)
    IN  [ret |-> Report_init(policy.name, policy_fields, conditions, mode,
                             resource, filters, actions),
         log |-> <<Query("policy", 0), Query("conditions", 0), Query("mode", 0),
                   Query("resource", 0)>>
                 \o [i \in 1..Len(rm.filters) |-> Query("filter", i)]
                 \o [i \in 1..Len(rm.actions) |-> Query("action", i)]]

\* what one collaborator's get_deprecations() may answer
TopResults == {<<>>, <<EntryA>>}
ElemResults == {<<>>, <<EntryA>>, <<EntryB, EntryC>>}
Elems == {[returns |-> r] : r \in ElemResults}

Policies ==
    {[name |-> PolicyName, returns |-> pf, conditions |-> [returns |-> c],
      execution_mode |-> [returns |-> m],
      resource_manager |-> [returns |-> r, filters |-> fs, actions |-> as]] :
        pf \in TopResults, c \in TopResults, m \in TopResults, r \in TopResults,
        fs \in SeqsUpTo(Elems, MaxElems), as \in SeqsUpTo(Elems, MaxElems)}

CallReport ==
    /\ the_report = None
    /\ \E policy \in Policies :
         LET r == report(policy)
         IN  /\ the_report' = r.ret
             /\ last' = [fn |-> "report", args |-> <<policy>>, ret |-> None,
                         log |-> r.log]
    /\ UNCHANGED <<Deprecation_id, rules, raised, calls, pc, self_obj, reg, built,
                   arg_source, arg_context, arg_data>>

NextAggregate ==
    \/ CallReport
    \/ CallBool
    \/ CallFormat

SpecAggregate == InitReport /\ [][NextAggregate]_vars

RECURSIVE Concatenation(_)
Concatenation(elems) ==
    IF elems = <<>> THEN <<>>
    ELSE Concatenation(SubSeq(elems, 1, Len(elems) - 1)) \o elems[Len(elems)].returns

\* C10: report(policy) queries policy fields, condition block, execution mode,
\* resource manager, then each filter and each action in order, and the
\* Report's filters (actions) are the concatenation of the filters' (actions')
\* results in that order, nothing reordered, dropped or deduplicated.
C10_AggregationOrder ==
    last.fn = "report" =>
        LET policy == last.args[1]
            rm == policy.resource_manager
        IN  /\ Len(last.log) = 4 + Len(rm.filters) + Len(rm.actions)
            /\ last.log[1].kind = "policy"
            /\ last.log[2].kind = "conditions"
            /\ last.log[3].kind = "mode"
            /\ last.log[4].kind = "resource"
            /\ \A i \in DOMAIN rm.filters : last.log[4 + i] = Query("filter", i)
            /\ \A i \in DOMAIN rm.actions :
                 last.log[4 + Len(rm.filters) + i] = Query("action", i)
            /\ the_report.policy_fields = policy.returns
            /\ the_report.conditions = policy.conditions.returns
            /\ the_report.mode = policy.execution_mode.returns
            /\ the_report.resource = rm.returns
            /\ the_report.filters = Concatenation(rm.filters)
            /\ the_report.actions = Concatenation(rm.actions)

\* two filters and two actions, and the same rule id twice among the filters
C10_Witness ==
    /\ last.fn = "report"
    /\ Len(last.args[1].resource_manager.filters) = 2
    /\ Len(last.args[1].resource_manager.actions) = 2
    /\ Len(the_report.filters) = 3
    /\ IdOf(the_report.filters[1]) = IdOf(the_report.filters[3])
    /\ the_report.actions # <<>>

====
